---- MODULE Spec2Model ----
(***************************************************************************)
(* Events, formulae and gates of SCRAM fault trees (src/src/event.h).      *)
(*                                                                         *)
(* Objects are modelled as a heap: every data member of a class is a       *)
(* variable holding a function from the objects of that class to the       *)
(* member's value.  Every public member function is an action; the         *)
(* variable `call` records the last call with its argument, its outcome    *)
(* (normal return or the exception thrown) and its return value.           *)
(***************************************************************************)
EXTENDS Integers, Sequences, FiniteSets, TLC

\* ------------------------------------------------------------------ bounds
\* Event ids are the integers 1..MaxId (they stand for the id strings).
MaxId == 2
\* Nested formulae that may be added to the formula under construction.
MaxNested == 2

\* Gates, nested formulae and gate arguments of the fault tree that the
\* acyclicity check runs on.
NumGates == 2
NumNested == 1
MaxEdges == 2

Ids == 1 .. MaxId

\* ----------------------------------------------------------------- objects
\* An event object: its dynamic type and the id set at construction.
Event(kind, id) == [kind |-> kind, id |-> id]

HouseEvents == {Event("house", i) : i \in Ids}
BasicEvents == {Event("basic", i) : i \in Ids}
GateEvents == {Event("gate", i) : i \in Ids}

\* The gates of the fault tree of the acyclicity check.
CycleGates == {Event("gate", i) : i \in 1 .. NumGates}

\* The null pointer and the absent argument / return value.
Null == <<>>
None == <<>>

\* The operators of a formula.
Types == {"and", "or", "not", "nor", "nand", "xor", "null", "atleast"}
kTwoOrMore_ == {"and", "or", "nand", "nor", "xor"}
kSingle_ == {"not", "null"}

\* The formula every call of the formula specification addresses.
RootFormula == 1

VARIABLES
  \* Formula: data members, one function over the constructed formulae.
  type_, vote_number_, event_args_, house_event_args_, basic_event_args_,
  gate_args_, formula_args_, nodes_, connectors_, gather_,
  \* Event, PrimaryEvent, HouseEvent, BasicEvent: data members.
  orphan_, has_expression_, state_, expression_,
  \* Expression: the draw memoised for the sampling cycle, <<>> when none.
  sampled_,
  \* Gate: data members.
  formula_, mark_,
  \* The acyclicity check: its stack of visits and its verdict.
  stack, verdict,
  \* The build: TRUE when assert() is compiled in (NDEBUG not defined).
  assertions,
  \* TRUE once the process has been terminated (abort() or a crash).
  halted,
  \* History: the events whose setter (state, expression) has returned, and
  \* per expression the first draw of the current sampling cycle with the
  \* event that drew it, <<>> when the cycle has no draw yet.
  touched, first_draw,
  \* The last call: [op, target, arg, outcome, ret].
  call

formulaVars == <<type_, vote_number_, event_args_, house_event_args_,
                 basic_event_args_, gate_args_, formula_args_, nodes_,
                 connectors_, gather_>>

eventVars == <<has_expression_, state_, expression_, sampled_, halted,
               touched, first_draw>>

\* The variables no call on a primary event or on a formula changes.
gateVars == <<formula_, mark_, stack, verdict>>

restVars == <<assertions, orphan_, gateVars>>

nonFormulaVars == <<eventVars, restVars>>

vars == <<formulaVars, eventVars, restVars, call>>

Call(op, target, arg, outcome, ret) ==
  [op |-> op, target |-> target, arg |-> arg, outcome |-> outcome, ret |-> ret]

\* The formulae constructed so far.
Formulae == DOMAIN type_

\* ---------------------------------------------------------------- Formula
\* std::map::emplace: inserts the pair unless the key is present.
EmplaceDropped(map, key, value) == map
Emplace(map, key, value) ==
  IF key \in DOMAIN map THEN map
  ELSE [k \in DOMAIN map \cup {key} |-> IF k = key THEN value ELSE map[k]]

\* A function extended by one new object.
Extend(fn, obj, value) ==
  [o \in DOMAIN fn \cup {obj} |-> IF o = obj THEN value ELSE fn[o]]

EmptyMap == [k \in {} |-> Null]

\* Formula::num_args()
num_args_events_only(f) == Cardinality(DOMAIN event_args_[f])
num_args(f) == Cardinality(DOMAIN event_args_[f]) + Len(formula_args_[f])

\* event_args_.count(event->id()) in the AddArgument template.
count_in_container(f, event) ==
  LET container == CASE event.kind = "house" -> house_event_args_[f]
                     [] event.kind = "basic" -> basic_event_args_[f]
                     [] OTHER -> gate_args_[f]
  IN IF \E i \in 1 .. Len(container) : container[i].id = event.id THEN 1 ELSE 0
count(f, event) == IF event.id \in DOMAIN event_args_[f] THEN 1 ELSE 0

\* template<class Ptr> Formula::AddArgument(const Ptr&, std::vector<Ptr>*):
\* the container is the one of the event's static type.
AddArgument_assigning(f, event, container) ==
  IF count(f, event) # 0
  THEN /\ event_args_' = [event_args_ EXCEPT ![f][event.id] = event]
       /\ call' = Call("AddArgument", f, event, "DuplicateArgumentError", None)
       /\ UNCHANGED <<type_, vote_number_, house_event_args_,
                      basic_event_args_, gate_args_, formula_args_, nodes_,
                      connectors_, gather_, nonFormulaVars>>
  ELSE /\ event_args_' = [event_args_ EXCEPT ![f] = Emplace(@, event.id, event)]
       /\ house_event_args_' =
            IF container = "house"
            THEN [house_event_args_ EXCEPT ![f] = Append(@, event)]
            ELSE house_event_args_
       /\ basic_event_args_' =
            IF container = "basic"
            THEN [basic_event_args_ EXCEPT ![f] = Append(@, event)]
            ELSE basic_event_args_
       /\ gate_args_' =
            IF container = "gate"
            THEN [gate_args_ EXCEPT ![f] = Append(@, event)]
            ELSE gate_args_
       /\ call' = Call("AddArgument", f, event, "ok", None)
       /\ UNCHANGED <<type_, vote_number_, formula_args_, nodes_, connectors_,
                      gather_, nonFormulaVars>>
AddArgument(f, event, container) ==
  IF count(f, event) # 0
  THEN /\ call' = Call("AddArgument", f, event, "DuplicateArgumentError", None)
       /\ UNCHANGED <<formulaVars, nonFormulaVars>>
  ELSE /\ event_args_' = [event_args_ EXCEPT ![f] = Emplace(@, event.id, event)]
       /\ house_event_args_' =
            IF container = "house"
            THEN [house_event_args_ EXCEPT ![f] = Append(@, event)]
            ELSE house_event_args_
       /\ basic_event_args_' =
            IF container = "basic"
            THEN [basic_event_args_ EXCEPT ![f] = Append(@, event)]
            ELSE basic_event_args_
       /\ gate_args_' =
            IF container = "gate"
            THEN [gate_args_ EXCEPT ![f] = Append(@, event)]
            ELSE gate_args_
       /\ call' = Call("AddArgument", f, event, "ok", None)
       /\ UNCHANGED <<type_, vote_number_, formula_args_, nodes_, connectors_,
                      gather_, nonFormulaVars>>

\* Formula::AddArgument(const HouseEventPtr&)
AddArgumentHouse(f, event) == AddArgument(f, event, "house")
\* Formula::AddArgument(const BasicEventPtr&)
AddArgumentBasic(f, event) == AddArgument(f, event, "basic")
\* Formula::AddArgument(const GatePtr&)
AddArgumentGate(f, event) == AddArgument(f, event, "gate")

\* Formula::Formula(type) followed by Formula::AddArgument(FormulaPtr): the
\* new formula is owned by f alone (a unique_ptr moved into formula_args_).
NewFormula ==
  CHOOSE n \in 1 .. Cardinality(Formulae) + 1 :
    n \notin Formulae /\ \A m \in 1 .. n - 1 : m \in Formulae

AddArgumentFormula(f, type) ==
  LET new == NewFormula IN
  /\ type_' = Extend(type_, new, type)
  /\ vote_number_' = Extend(vote_number_, new, 0)
  /\ event_args_' = Extend(event_args_, new, EmptyMap)
  /\ house_event_args_' = Extend(house_event_args_, new, <<>>)
  /\ basic_event_args_' = Extend(basic_event_args_, new, <<>>)
  /\ gate_args_' = Extend(gate_args_, new, <<>>)
  /\ formula_args_' =
       Extend([formula_args_ EXCEPT ![f] = Append(@, new)], new, <<>>)
  /\ nodes_' = Extend(nodes_, new, <<>>)
  /\ connectors_' = Extend(connectors_, new, <<>>)
  /\ gather_' = Extend(gather_, new, TRUE)
  /\ call' = Call("AddArgumentFormula", f, new, "ok", None)
  /\ UNCHANGED nonFormulaVars

\* Formula::vote_number(int)
Formula_vote_number(f, number) ==
  LET outcome == IF type_[f] # "atleast" THEN "LogicError"
                 ELSE IF number < 2 THEN "InvalidArgument"
                 ELSE IF vote_number_[f] # 0 THEN "LogicError"
                 ELSE "ok"
  IN /\ vote_number_' = IF outcome = "ok"
                        THEN [vote_number_ EXCEPT ![f] = number]
                        ELSE vote_number_
     /\ call' = Call("vote_number", f, number, outcome, None)
     /\ UNCHANGED <<type_, event_args_, house_event_args_, basic_event_args_,
                    gate_args_, formula_args_, nodes_, connectors_, gather_,
                    nonFormulaVars>>

\* The check of Formula::Validate().
ValidateOutcome(f) ==
  LET n == num_args(f)
      ok == CASE type_[f] \in kSingle_ -> n = 1
              [] type_[f] \in kTwoOrMore_ -> n >= 2
              [] OTHER -> n >= 2 /\ 2 <= vote_number_[f] /\ vote_number_[f] < n
  IN IF ok THEN "ok" ELSE "ValidationError"

\* Formula::Validate()
Formula_Validate(f) ==
  /\ call' = Call("Formula::Validate", f, None, ValidateOutcome(f), None)
  /\ UNCHANGED <<formulaVars, nonFormulaVars>>

\* Formula::GatherNodesAndConnectors(): what the gathering puts into nodes_
\* and connectors_; it clears gather_.
GatheredNodes(f) == gate_args_[f]
GatheredConnectors(f) == formula_args_[f]

\* What nodes() and connectors() return: `if (gather_) gather; return ...`.
NodesReturned(f) == IF gather_[f] THEN GatheredNodes(f) ELSE nodes_[f]
ConnectorsReturned(f) ==
  IF gather_[f] THEN GatheredConnectors(f) ELSE connectors_[f]

\* The effect of a nodes() or connectors() call on the formula.
GatherNodesAndConnectors(f) ==
  /\ nodes_' = [nodes_ EXCEPT ![f] = NodesReturned(f)]
  /\ connectors_' = [connectors_ EXCEPT ![f] = ConnectorsReturned(f)]
  /\ gather_' = [gather_ EXCEPT ![f] = FALSE]

\* Formula::nodes()
nodes(f) ==
  /\ GatherNodesAndConnectors(f)
  /\ call' = Call("nodes", f, None, "ok", nodes_'[f])
  /\ UNCHANGED <<type_, vote_number_, event_args_, house_event_args_,
                 basic_event_args_, gate_args_, formula_args_, nonFormulaVars>>

\* Formula::connectors()
connectors(f) ==
  /\ GatherNodesAndConnectors(f)
  /\ call' = Call("connectors", f, None, "ok", connectors_'[f])
  /\ UNCHANGED <<type_, vote_number_, event_args_, house_event_args_,
                 basic_event_args_, gate_args_, formula_args_, nonFormulaVars>>

\* ------------------------------------------------------------- Expression
\* The upper bound of a probability (the lower bound is 0).
One == 1

\* The expression objects of the model: the constants and the uniform
\* deviates with bounds among -1, 0, 1 and 2.
Expressions ==
  {[min |-> q[1], max |-> q[2]] :
     q \in {r \in (0 - 1 .. One + 1) \X (0 - 1 .. One + 1) : r[1] <= r[2]}}

\* Expression::Min(), Max(), IsConstant()
Min(e) == e.min
Max(e) == e.max
IsConstant(e) == e.min = e.max

\* Expression::Mean(): the fraction <<numerator, denominator>>.
Mean(e) == <<e.min + e.max, 2>>

\* The values a draw of the expression may give.
Draws(e) == e.min .. e.max

\* Expression::Sample(): the values the call may return; the value returned
\* is memoised until Reset().
Sample(e) == IF sampled_[e] # <<>> THEN {sampled_[e][1]} ELSE Draws(e)

\* ----------------------------------------------- PrimaryEvent, HouseEvent
PrimaryEvents == HouseEvents \cup BasicEvents

\* PrimaryEvent::has_expression()
has_expression(event) == has_expression_[event]

\* HouseEvent::state()
state(event) == state_[event]

\* Event::orphan(bool)
Event_orphan(event, orphan) ==
  /\ orphan_' = [orphan_ EXCEPT ![event] = orphan]
  /\ call' = Call("orphan", event, orphan, "ok", None)
  /\ UNCHANGED <<formulaVars, eventVars, assertions, gateVars>>

\* The getters as calls.
PrimaryEvent_has_expression(event) ==
  /\ call' = Call("has_expression", event, None, "ok", has_expression(event))
  /\ UNCHANGED <<formulaVars, eventVars, restVars>>

HouseEvent_state_get(h) ==
  /\ call' = Call("state()", h, None, "ok", state(h))
  /\ UNCHANGED <<formulaVars, eventVars, restVars>>

\* HouseEvent::state(bool)
HouseEvent_state_flag_from_constant(h, constant) ==
  /\ has_expression_' = [has_expression_ EXCEPT ![h] = constant]
  /\ state_' = [state_ EXCEPT ![h] = constant]
  /\ touched' = touched \cup {h}
  /\ call' = Call("state", h, constant, "ok", None)
  /\ UNCHANGED <<formulaVars, expression_, sampled_, halted, first_draw,
                 restVars>>
HouseEvent_state(h, constant) ==
  /\ has_expression_' = [has_expression_ EXCEPT ![h] = TRUE]
  /\ state_' = [state_ EXCEPT ![h] = constant]
  /\ touched' = touched \cup {h}
  /\ call' = Call("state", h, constant, "ok", None)
  /\ UNCHANGED <<formulaVars, expression_, sampled_, halted, first_draw,
                 restVars>>

\* ------------------------------------------------------------- BasicEvent
\* A failed assert(): the process is aborted.
Abort(op, target, arg) ==
  /\ call' = Call(op, target, arg, "abort", None)
  /\ halted' = TRUE
  /\ UNCHANGED <<formulaVars, has_expression_, state_, expression_, sampled_,
                 touched, first_draw, restVars>>

\* A member call through the null expression_: undefined behaviour.  The
\* process crashes, or goes on with a result that means nothing.
Undefined(op, target) ==
  /\ call' = Call(op, target, None, "undefined", None)
  /\ halted' \in BOOLEAN
  /\ UNCHANGED <<formulaVars, has_expression_, state_, expression_, sampled_,
                 touched, first_draw, restVars>>

\* assert(expression_) of p() and SampleProbability().
AssertExpression(op, b) ==
  IF assertions THEN Abort(op, b, None) ELSE Undefined(op, b)

\* BasicEvent::expression(const ExpressionPtr&)
\* The caller keeps its own ExpressionPtr: the assignment expression_ =
\* expression destroys no expression, and a memoised draw of the old
\* expression stays.  The pointer passed may be null.
BasicEvent_expression_without_flag(b, expression) ==
  /\ ~halted
  /\ IF expression_[b] # Null /\ assertions
     THEN Abort("expression", b, expression)
     ELSE /\ expression_' = [expression_ EXCEPT ![b] = expression]
          /\ touched' = touched \cup {b}
          /\ call' = Call("expression", b, expression, "ok", None)
          /\ UNCHANGED <<formulaVars, has_expression_, state_, sampled_,
                         first_draw, halted, restVars>>
BasicEvent_expression(b, expression) ==
  /\ ~halted
  /\ IF expression_[b] # Null /\ assertions
     THEN Abort("expression", b, expression)
     ELSE /\ has_expression_' = [has_expression_ EXCEPT ![b] = TRUE]
          /\ expression_' = [expression_ EXCEPT ![b] = expression]
          /\ touched' = touched \cup {b}
          /\ call' = Call("expression", b, expression, "ok", None)
          /\ UNCHANGED <<formulaVars, state_, sampled_, first_draw, halted,
                         restVars>>

\* BasicEvent::p()
BasicEvent_p(b) ==
  /\ ~halted
  /\ IF expression_[b] = Null THEN AssertExpression("p", b)
     ELSE /\ call' = Call("p", b, None, "ok", Mean(expression_[b]))
          /\ UNCHANGED <<formulaVars, eventVars, restVars>>

\* The value of `return expression_->Sample()` in SampleProbability().
SampleProbabilityFresh(b) == Draws(expression_[b])
SampleProbabilityValues(b) == Sample(expression_[b])

\* BasicEvent::SampleProbability()
BasicEvent_SampleProbability(b) ==
  /\ ~halted
  /\ IF expression_[b] = Null THEN AssertExpression("SampleProbability", b)
     ELSE \E v \in SampleProbabilityValues(b) :
            /\ sampled_' = [sampled_ EXCEPT ![expression_[b]] = <<v>>]
            /\ first_draw' =
                 IF first_draw[expression_[b]] = <<>>
                 THEN [first_draw EXCEPT ![expression_[b]] = <<v, b>>]
                 ELSE first_draw
            /\ call' = Call("SampleProbability", b, None, "ok", v)
            /\ UNCHANGED <<formulaVars, has_expression_, state_, expression_,
                           halted, touched, restVars>>

\* BasicEvent::Reset()
BasicEvent_Reset(b) ==
  /\ ~halted
  /\ IF expression_[b] = Null THEN Undefined("Reset", b)
     ELSE /\ sampled_' = [sampled_ EXCEPT ![expression_[b]] = <<>>]
          /\ first_draw' = [first_draw EXCEPT ![expression_[b]] = <<>>]
          /\ call' = Call("Reset", b, None, "ok", None)
          /\ UNCHANGED <<formulaVars, has_expression_, state_, expression_,
                         halted, touched, restVars>>

\* BasicEvent::IsConstant()
BasicEvent_IsConstant(b) ==
  /\ ~halted
  /\ IF expression_[b] = Null THEN Undefined("IsConstant", b)
     ELSE /\ call' = Call("IsConstant", b, None, "ok", IsConstant(expression_[b]))
          /\ UNCHANGED <<formulaVars, eventVars, restVars>>

\* The condition of the throw in BasicEvent::Validate().
ExpressionInvalidStrict(e) == Min(e) <= 0 \/ Max(e) >= One
ExpressionInvalid(e) == Min(e) < 0 \/ Max(e) > One

\* BasicEvent::Validate()
BasicEvent_ValidateSampling(b) ==
  /\ ~halted
  /\ IF expression_[b] = Null THEN Undefined("BasicEvent::Validate", b)
     ELSE \E v \in Sample(expression_[b]) :
            /\ sampled_' = [sampled_ EXCEPT ![expression_[b]] = <<v>>]
            /\ call' = Call("BasicEvent::Validate", b, None,
                            IF v < 0 \/ v > One THEN "ValidationError" ELSE "ok",
                            None)
            /\ UNCHANGED <<formulaVars, has_expression_, state_, expression_,
                           halted, touched, first_draw, restVars>>
BasicEvent_Validate(b) ==
  /\ ~halted
  /\ IF expression_[b] = Null THEN Undefined("BasicEvent::Validate", b)
     ELSE /\ call' = Call("BasicEvent::Validate", b, None,
                          IF ExpressionInvalid(expression_[b])
                          THEN "ValidationError" ELSE "ok",
                          None)
          /\ UNCHANGED <<formulaVars, eventVars, restVars>>

\* ------------------------------------------------------------------- Gate
\* Gate::connector()
connector(g) == formula_[g]

\* Gate::mark()
mark(g) == mark_[g]

\* Gate::mark(const std::string&)
SetMark(g, new_mark) == [mark_ EXCEPT ![g] = new_mark]

\* The formulae that formula f owns: itself and, through the unique_ptr of
\* formula_args_, its nested formulae.
RECURSIVE Owned(_)
Owned(f) ==
  {f} \cup UNION {Owned(formula_args_[f][i]) : i \in 1 .. Len(formula_args_[f])}

\* The data members of the formulae that are left when gone are destroyed.
Destroy(fn, gone) == [o \in DOMAIN fn \ gone |-> fn[o]]

\* Gate::formula(FormulaPtr): assert(!formula_); formula_ = std::move(formula).
\* The pointer passed is null or holds a formula just constructed by
\* Formula::Formula(type).  Without the
\* assert the move assignment destroys the formula the gate had, nested
\* formulae included.
FormulaPtr(type) == [type |-> type]

Gate_formula(g, formula) ==
  /\ ~halted
  /\ IF formula_[g] # 0 /\ assertions
     THEN Abort("Gate::formula", g, formula)
     ELSE LET new == IF formula = Null THEN 0 ELSE NewFormula
              gone == IF formula_[g] = 0 THEN {} ELSE Owned(formula_[g])
              Moved(fn, value) ==
                Destroy(IF formula = Null THEN fn ELSE Extend(fn, new, value),
                        gone)
          IN
          /\ formula_' = [formula_ EXCEPT ![g] = new]
          /\ type_' =
               Moved(type_, IF formula = Null THEN Null ELSE formula.type)
          /\ vote_number_' = Moved(vote_number_, 0)
          /\ event_args_' = Moved(event_args_, EmptyMap)
          /\ house_event_args_' = Moved(house_event_args_, <<>>)
          /\ basic_event_args_' = Moved(basic_event_args_, <<>>)
          /\ gate_args_' = Moved(gate_args_, <<>>)
          /\ formula_args_' = Moved(formula_args_, <<>>)
          /\ nodes_' = Moved(nodes_, <<>>)
          /\ connectors_' = Moved(connectors_, <<>>)
          /\ gather_' = Moved(gather_, TRUE)
          /\ call' = Call("Gate::formula", g, formula, "ok", new)
          /\ UNCHANGED <<eventVars, assertions, orphan_, mark_, stack, verdict>>

\* Gate::mark(const std::string&) called on a gate.
Gate_mark(g, new_mark) ==
  /\ mark_' = SetMark(g, new_mark)
  /\ call' = Call("mark", g, new_mark, "ok", None)
  /\ UNCHANGED <<formulaVars, eventVars, assertions, orphan_, formula_, stack,
                 verdict>>

\* Gate::Validate(): the check of the gate's formula; a gate without formula
\* is a null formula_ dereferenced.
Gate_Validate(g) ==
  IF connector(g) = 0 THEN Undefined("Gate::Validate", g)
  ELSE /\ call' = Call("Gate::Validate", g, None,
                       ValidateOutcome(connector(g)), None)
       /\ UNCHANGED <<formulaVars, nonFormulaVars>>

\* ------------------------------------------------------ acyclicity check
\* A visit of the depth-first search: the formula whose children are being
\* walked, the gate it belongs to (Null for a nested formula), and the next
\* positions in nodes() and connectors().
Frame(gate, formula) == [gate |-> gate, formula |-> formula, i |-> 1, j |-> 1]

Top == stack[Len(stack)]
Advance(field) ==
  [stack EXCEPT ![Len(stack)] =
     IF field = "i" THEN [@ EXCEPT !.i = @ + 1] ELSE [@ EXCEPT !.j = @ + 1]]

\* The check begins; the fault tree is not changed while it runs.
DetectStart ==
  /\ ~halted
  /\ verdict = ""
  /\ verdict' = "checking"
  /\ call' = Call("DetectCycle", None, None, "ok", None)
  /\ UNCHANGED <<formulaVars, eventVars, assertions, orphan_, formula_, mark_,
                 stack>>

\* Entering the formula of a gate just marked temporary: the first nodes()
\* call gathers.  A gate without formula is a null connector dereferenced:
\* undefined behaviour, the check has no verdict to rely on.
EnterGate(g, visits) ==
  IF connector(g) = 0
  THEN /\ verdict' = "undefined"
       /\ stack' = visits
       /\ UNCHANGED <<nodes_, connectors_, gather_>>
  ELSE /\ stack' = Append(visits, Frame(g, connector(g)))
       /\ GatherNodesAndConnectors(connector(g))
       /\ UNCHANGED verdict

\* The check takes up a gate: a gate that has no mark is marked temporary
\* and its formula is entered; a gate that is temporary is reported as a
\* cycle; a permanent gate is passed over.
DetectRoot(g) ==
  /\ verdict = "checking"
  /\ stack = <<>>
  /\ CASE mark(g) = "" ->
            /\ mark_' = SetMark(g, "temporary")
            /\ EnterGate(g, <<>>)
       [] mark(g) = "temporary" ->
            /\ verdict' = "CycleError"
            /\ UNCHANGED <<mark_, stack, nodes_, connectors_, gather_>>
       [] OTHER -> FALSE
  /\ UNCHANGED <<type_, vote_number_, event_args_, house_event_args_,
                 basic_event_args_, gate_args_, formula_args_, eventVars,
                 assertions, orphan_, formula_, call>>

\* The next gate of nodes(): a gate without mark is marked temporary and
\* entered, a temporary gate closes a cycle, a permanent gate is passed.
DetectNode ==
  /\ verdict = "checking"
  /\ stack # <<>>
  /\ Top.i <= Len(nodes_[Top.formula])
  /\ LET g == nodes_[Top.formula][Top.i] IN
       CASE mark(g) = "" ->
              /\ mark_' = SetMark(g, "temporary")
              /\ EnterGate(g, Advance("i"))
         [] mark(g) = "temporary" ->
              /\ verdict' = "CycleError"
              /\ stack' = Advance("i")
              /\ UNCHANGED <<mark_, nodes_, connectors_, gather_>>
         [] OTHER ->
              /\ stack' = Advance("i")
              /\ UNCHANGED <<mark_, nodes_, connectors_, gather_, verdict>>
  /\ UNCHANGED <<type_, vote_number_, event_args_, house_event_args_,
                 basic_event_args_, gate_args_, formula_args_, eventVars,
                 assertions, orphan_, formula_, call>>

\* After the gates, the next nested formula of connectors() is entered.
DetectConnector ==
  /\ verdict = "checking"
  /\ stack # <<>>
  /\ Top.i > Len(nodes_[Top.formula])
  /\ Top.j <= Len(connectors_[Top.formula])
  /\ LET link == connectors_[Top.formula][Top.j] IN
       /\ stack' = Append(Advance("j"), Frame(Null, link))
       /\ GatherNodesAndConnectors(link)
  /\ UNCHANGED <<type_, vote_number_, event_args_, house_event_args_,
                 basic_event_args_, gate_args_, formula_args_, eventVars,
                 assertions, orphan_, formula_, mark_, verdict, call>>

\* All children are done: the visit returns, and a gate becomes permanent.
DetectReturn ==
  /\ verdict = "checking"
  /\ stack # <<>>
  /\ Top.i > Len(nodes_[Top.formula])
  /\ Top.j > Len(connectors_[Top.formula])
  /\ stack' = SubSeq(stack, 1, Len(stack) - 1)
  /\ mark_' = IF Top.gate # Null THEN SetMark(Top.gate, "permanent") ELSE mark_
  /\ UNCHANGED <<formulaVars, eventVars, assertions, orphan_, formula_,
                 verdict, call>>

\* Every gate is permanent: no cycle is reported.
DetectFinish ==
  /\ verdict = "checking"
  /\ stack = <<>>
  /\ \A g \in CycleGates : mark(g) = "permanent"
  /\ verdict' = "acyclic"
  /\ UNCHANGED <<formulaVars, eventVars, assertions, orphan_, formula_, mark_,
                 stack, call>>

DetectNext ==
  \/ \E g \in CycleGates : DetectRoot(g)
  \/ DetectNode
  \/ DetectConnector
  \/ DetectReturn
  \/ DetectFinish

\* ----------------------------------------------------------- construction
\* No formula has been constructed.
NoFormulae ==
  /\ type_ = EmptyMap
  /\ vote_number_ = EmptyMap
  /\ event_args_ = EmptyMap
  /\ house_event_args_ = EmptyMap
  /\ basic_event_args_ = EmptyMap
  /\ gate_args_ = EmptyMap
  /\ formula_args_ = EmptyMap
  /\ nodes_ = EmptyMap
  /\ connectors_ = EmptyMap
  /\ gather_ = EmptyMap

\* Formula::Formula(type) for the root formula.
RootFormulaConstructed(types) ==
  /\ type_ \in [{RootFormula} -> types]
  /\ vote_number_ = [f \in {RootFormula} |-> 0]
  /\ event_args_ = [f \in {RootFormula} |-> EmptyMap]
  /\ house_event_args_ = [f \in {RootFormula} |-> <<>>]
  /\ basic_event_args_ = [f \in {RootFormula} |-> <<>>]
  /\ gate_args_ = [f \in {RootFormula} |-> <<>>]
  /\ formula_args_ = [f \in {RootFormula} |-> <<>>]
  /\ nodes_ = [f \in {RootFormula} |-> <<>>]
  /\ connectors_ = [f \in {RootFormula} |-> <<>>]
  /\ gather_ = [f \in {RootFormula} |-> TRUE]

\* Event::Event(name) for every gate: no mark; formula_ as given by owned.
\* No acyclicity check has begun.
GatesConstructed(owned) ==
  /\ formula_ = owned
  /\ mark_ = [g \in CycleGates |-> ""]
  /\ stack = <<>>
  /\ verdict = ""

NoGateFormulae == [g \in CycleGates |-> 0]

\* Event::Event(name) for every primary event: no expression, state false.
EventsConstructed ==
  /\ orphan_ = [e \in PrimaryEvents |-> TRUE]
  /\ has_expression_ = [e \in PrimaryEvents |-> FALSE]
  /\ state_ = [e \in HouseEvents |-> FALSE]
  /\ expression_ = [e \in BasicEvents |-> Null]
  /\ sampled_ = [e \in Expressions |-> <<>>]
  /\ halted = FALSE
  /\ touched = {}
  /\ first_draw = [e \in Expressions |-> <<>>]

\* ------------------------------------------------- formula specification
\* One formula of any operator is constructed; arguments are added, the vote
\* number is set, and the formula is validated and traversed in any order.
InitFormula ==
  /\ RootFormulaConstructed(Types)
  /\ EventsConstructed
  /\ GatesConstructed(NoGateFormulae)
  /\ assertions = TRUE
  /\ call = Call("Formula", RootFormula, None, "ok", None)

NextFormula ==
  \/ \E e \in HouseEvents : AddArgumentHouse(RootFormula, e)
  \/ \E e \in BasicEvents : AddArgumentBasic(RootFormula, e)
  \/ \E e \in GateEvents : AddArgumentGate(RootFormula, e)
  \/ /\ Len(formula_args_[RootFormula]) < MaxNested
     /\ AddArgumentFormula(RootFormula, "and")
  \/ \E k \in 1 .. MaxId + MaxNested : Formula_vote_number(RootFormula, k)
  \/ Formula_Validate(RootFormula)
  \/ nodes(RootFormula)
  \/ connectors(RootFormula)

SpecFormula == InitFormula /\ [][NextFormula]_vars

\* --------------------------------------------------- event specification
\* Basic events are constructed without expression; expressions are assigned, sampled, reset and validated in any order, in a build with
\* or without assertions.
InitEvent ==
  /\ NoFormulae
  /\ EventsConstructed
  /\ GatesConstructed(NoGateFormulae)
  /\ assertions \in BOOLEAN
  /\ call = Call("Event", None, None, "ok", None)

\* The two basic events of the event specification; they may share an
\* expression.
SampledEvents == {Event("basic", 1), Event("basic", 2)}

\* The expressions the caller holds, and the null ExpressionPtr.
SampledExpressions ==
  {e \in Expressions : Max(e) - Min(e) = 1 \/ (Min(e) = 0 /\ Max(e) = 0)}
ExpressionPtrs == SampledExpressions \cup {Null}

NextEvent ==
  \/ \E b \in SampledEvents, e \in ExpressionPtrs :
       BasicEvent_expression(b, e)
  \/ \E b \in SampledEvents : BasicEvent_p(b)
  \/ \E b \in SampledEvents : BasicEvent_SampleProbability(b)
  \/ \E b \in SampledEvents : BasicEvent_Reset(b)
  \/ \E b \in SampledEvents : BasicEvent_IsConstant(b)
  \/ \E b \in SampledEvents : BasicEvent_Validate(b)

SpecEvent == InitEvent /\ [][NextEvent]_vars

\* --------------------------------------------- house event specification
\* House events are constructed; their state is set and read in any order.
InitHouse ==
  /\ NoFormulae
  /\ EventsConstructed
  /\ GatesConstructed(NoGateFormulae)
  /\ assertions = TRUE
  /\ call = Call("Event", None, None, "ok", None)

NextHouse ==
  \/ \E h \in HouseEvents, constant \in BOOLEAN : HouseEvent_state(h, constant)
  \/ \E h \in HouseEvents : HouseEvent_state_get(h)
  \/ \E h \in HouseEvents : PrimaryEvent_has_expression(h)
  \/ \E h \in HouseEvents, orphan \in BOOLEAN : Event_orphan(h, orphan)

SpecHouse == InitHouse /\ [][NextHouse]_vars

\* ---------------------------------------------- fault tree specification
\* Every gate is constructed with a formula of its own.  Gates and nested
\* formulae are added to the formulae, then the acyclicity check runs.
InitCycle ==
  /\ type_ = [f \in 1 .. NumGates |-> "or"]
  /\ vote_number_ = [f \in 1 .. NumGates |-> 0]
  /\ event_args_ = [f \in 1 .. NumGates |-> EmptyMap]
  /\ house_event_args_ = [f \in 1 .. NumGates |-> <<>>]
  /\ basic_event_args_ = [f \in 1 .. NumGates |-> <<>>]
  /\ gate_args_ = [f \in 1 .. NumGates |-> <<>>]
  /\ formula_args_ = [f \in 1 .. NumGates |-> <<>>]
  /\ nodes_ = [f \in 1 .. NumGates |-> <<>>]
  /\ connectors_ = [f \in 1 .. NumGates |-> <<>>]
  /\ gather_ = [f \in 1 .. NumGates |-> TRUE]
  /\ orphan_ = [e \in PrimaryEvents |-> TRUE]
  /\ has_expression_ = [e \in PrimaryEvents |-> FALSE]
  /\ state_ = [e \in HouseEvents |-> FALSE]
  /\ expression_ = [e \in BasicEvents |-> Null]
  /\ sampled_ = [e \in Expressions |-> <<>>]
  /\ halted = FALSE
  /\ touched = {}
  /\ first_draw = [e \in Expressions |-> <<>>]
  /\ formula_ = [g \in CycleGates |-> g.id]
  /\ mark_ = [g \in CycleGates |-> ""]
  /\ stack = <<>>
  /\ verdict = ""
  /\ assertions \in BOOLEAN
  /\ call = Call("Gate", None, None, "ok", None)

\* The marks of the acyclicity check.
Marks == {"", "temporary", "permanent"}

\* The gate that is given marks from outside the check.
MarkedGates == {Event("gate", 1)}

\* The gate arguments of all formulae.
EdgeCount(fs) == Cardinality({<<f, i>> \in fs \X (1 .. NumGates) :
                               i <= Len(gate_args_[f])})

NextCycle ==
  \/ /\ verdict = "" /\ ~halted
     /\ EdgeCount(Formulae) < MaxEdges
     /\ \E f \in Formulae, g \in CycleGates : AddArgumentGate(f, g)
  \/ /\ verdict = "" /\ ~halted
     /\ Cardinality(Formulae \ {formula_[g] : g \in CycleGates}) < NumNested
     /\ \E f \in Formulae : AddArgumentFormula(f, "and")
  \/ /\ verdict = "" /\ ~halted
     /\ \E f \in Formulae : nodes(f) \/ connectors(f)
  \/ /\ verdict = ""
     /\ \E g \in CycleGates, formula \in {FormulaPtr("or"), Null} :
          Gate_formula(g, formula)
  \/ /\ verdict = "" /\ ~halted
     /\ \E g \in MarkedGates, new_mark \in Marks : Gate_mark(g, new_mark)
  \/ DetectStart
  \/ DetectNext

SpecCycle == InitCycle /\ [][NextCycle]_vars

\* ---------------------------------------------- validation specification
\* A gate with its formula and a basic event: arguments, a vote number and
\* an expression are given, and the three Validate() functions are run.
ValidatedGate == Event("gate", 1)
ValidatedEvent == Event("basic", 1)
ValidatedTypes == {"and", "not", "atleast"}
ValidatedExpressions ==
  {e \in Expressions : Max(e) - Min(e) = 1 \/ (Min(e) = 0 /\ Max(e) = 0)}

ValidatedGates == {Event("gate", 1), Event("gate", 2)}
ValidatedArguments == {Event("basic", 1), Event("basic", 2)}

InitValidate ==
  /\ RootFormulaConstructed(ValidatedTypes)
  /\ EventsConstructed
  /\ GatesConstructed([g \in CycleGates |->
                         IF g = ValidatedGate THEN RootFormula ELSE 0])
  /\ assertions \in BOOLEAN
  /\ call = Call("Gate", None, None, "ok", None)

NextValidate ==
  \/ /\ ~halted
     /\ \E f \in Formulae, b \in ValidatedArguments : AddArgumentBasic(f, b)
  \/ /\ ~halted
     /\ \E f \in Formulae, k \in 1 .. MaxId : Formula_vote_number(f, k)
  \/ \E g \in ValidatedGates,
        formula \in {FormulaPtr(type) : type \in ValidatedTypes} \cup {Null} :
       Gate_formula(g, formula)
  \/ \E e \in ValidatedExpressions \cup {Null} :
       BasicEvent_expression(ValidatedEvent, e)
  \/ BasicEvent_Validate(ValidatedEvent)
  \/ /\ ~halted
     /\ \E f \in Formulae : Formula_Validate(f)
  \/ /\ ~halted
     /\ \E g \in ValidatedGates : Gate_Validate(g)

SpecValidate == InitValidate /\ [][NextValidate]_vars

\* ------------------------------------------------------- claims: Formula
\* The ids of the events held by the three event sequences of formula f.
SeqIds(seq) == {seq[i].id : i \in 1 .. Len(seq)}
InsertedIds(f) ==
  SeqIds(house_event_args_[f]) \cup SeqIds(basic_event_args_[f])
    \cup SeqIds(gate_args_[f])

InsertedIdsAfter(f) ==
  SeqIds(house_event_args_'[f]) \cup SeqIds(basic_event_args_'[f])
    \cup SeqIds(gate_args_'[f])

\* The arguments of formula f, counted over its four sequences.
NumArguments(f) ==
  Len(house_event_args_[f]) + Len(basic_event_args_[f]) + Len(gate_args_[f])
    + Len(formula_args_[f])

\* C1: an AddArgument call raises DuplicateArgumentError exactly when the id
\* of its event is the id of an event already inserted into the formula,
\* whatever the subtypes of the two events; otherwise it succeeds and the
\* event is among the arguments.
C1_DuplicateIffIdPresent ==
  [][call'.op = "AddArgument" =>
       /\ call'.outcome \in {"ok", "DuplicateArgumentError"}
       /\ (call'.outcome = "DuplicateArgumentError")
            <=> (call'.arg.id \in InsertedIds(call'.target))
       /\ call'.outcome = "ok" =>
            /\ call'.arg.id \in InsertedIdsAfter(call'.target)
            /\ event_args_'[call'.target][call'.arg.id] = call'.arg]_vars

\* C1 witness: a gate, house or basic event was rejected because an event of
\* another subtype holds its id.
C1_Witness ==
  /\ call.op = "AddArgument"
  /\ call.outcome = "DuplicateArgumentError"
  /\ event_args_[call.target][call.arg.id].kind # call.arg.kind

\* The arity rule of an operator with n arguments and vote number k.
ArityRule(type, n, k) ==
  CASE type \in {"null", "not"} -> n = 1
    [] type \in {"and", "or", "nand", "nor", "xor"} -> n >= 2
    [] type = "atleast" -> n >= 2 /\ 2 <= k /\ k < n

\* C2: Validate accepts a formula exactly when the arity rule of its operator
\* holds for its number of event arguments plus nested formulae, and raises
\* ValidationError in every other case.
C2_ValidateIffArityRule ==
  call.op = "Formula::Validate" =>
    /\ call.outcome \in {"ok", "ValidationError"}
    /\ (call.outcome = "ok")
         <=> ArityRule(type_[call.target], NumArguments(call.target),
                       vote_number_[call.target])

\* C2 witness: an ATLEAST formula with vote number 2 and three arguments, one
\* of them a nested formula, was accepted.
C2_Witness ==
  /\ call.op = "Formula::Validate"
  /\ call.outcome = "ok"
  /\ type_[call.target] = "atleast"
  /\ vote_number_[call.target] = 2
  /\ NumArguments(call.target) = 3
  /\ Len(formula_args_[call.target]) = 1

\* C6: nodes() returns exactly the gates currently in gate_args() and
\* connectors() exactly the formulae currently in formula_args(), also for
\* arguments added after an earlier nodes() or connectors() call.
C6_NodesAndConnectorsAreCurrent ==
  /\ call.op = "nodes" => call.ret = gate_args_[call.target]
  /\ call.op = "connectors" => call.ret = formula_args_[call.target]

\* ---------------------------------------------------------- claims: Gate
\* The gates that appear in formula f directly or inside a nested formula.
RECURSIVE GatesIn(_)
GatesIn(f) ==
  {gate_args_[f][i] : i \in 1 .. Len(gate_args_[f])}
    \cup UNION {GatesIn(formula_args_[f][i]) : i \in 1 .. Len(formula_args_[f])}

\* The gate graph: an edge from a gate to each gate in its formula.
Edges(g) == IF formula_[g] = 0 THEN {} ELSE GatesIn(formula_[g])

RECURSIVE ReachedIn(_, _)
ReachedIn(gates, steps) ==
  IF steps = 0 THEN gates
  ELSE ReachedIn(gates \cup UNION {Edges(g) : g \in gates}, steps - 1)

HasCycle == \E g \in CycleGates : g \in ReachedIn(Edges(g), NumGates)

\* A formula whose gathered children are no longer its arguments.
Stale(f) ==
  /\ ~gather_[f]
  /\ nodes_[f] # gate_args_[f] \/ connectors_[f] # formula_args_[f]

\* C5: the acyclicity check ends with CycleError if and only if the gate
\* graph (edges to the gates in a gate's formula, nested formulae included)
\* contains a cycle.
C5_CycleErrorIffCycle ==
  verdict \in {"acyclic", "CycleError"} => (verdict = "CycleError" <=> HasCycle)

\* The fault tree on whose gates nothing but the check sets marks.
NextCycleUnmarked ==
  NextCycle /\ (call'.op = "mark" => UNCHANGED mark_)
SpecCycleUnmarked == InitCycle /\ [][NextCycleUnmarked]_vars

\* On a fault tree without stale formulae, in which only the check has set
\* marks (SpecCycleUnmarked), the verdict of the check is right.
CycleVerdictOnGatheredTree ==
  (verdict \in {"acyclic", "CycleError"} /\ \A f \in Formulae : ~Stale(f))
    => (verdict = "CycleError" <=> HasCycle)

\* The check, once begun, takes its steps until it has a verdict.
SpecCycleFair == SpecCycleUnmarked /\ WF_vars(DetectNext)

CycleCheckTerminates ==
  (verdict = "checking") ~> (verdict \in {"acyclic", "CycleError", "undefined"})

CycleCheckProceeds == verdict = "checking" => ENABLED DetectNext

\* -------------------------------------------------------- claims: events
\* C3: a call of expression(e) on a basic event that already holds an
\* expression is reported as a LogicError and leaves the expression in place.
C3_ReassignmentIsLogicError ==
  [][(call'.op = "expression" /\ expression_[call'.target] # Null) =>
       /\ call'.outcome = "LogicError"
       /\ expression_'[call'.target] = expression_[call'.target]]_vars

\* C4: BasicEvent::Validate raises ValidationError if and only if the
\* expression of the event has Min() < 0 or Max() > 1; with 0 <= Min() and
\* Max() <= 1 it returns normally.
C4_ValidateIffOutOfRange ==
  (call.op = "BasicEvent::Validate" /\ expression_[call.target] # Null) =>
    /\ call.outcome \in {"ok", "ValidationError"}
    /\ (call.outcome = "ValidationError")
         <=> (expression_[call.target].min < 0
                \/ expression_[call.target].max > 1)

\* C4 witness: an expression with the bounds 0 and 1 themselves passed.
C4_Witness ==
  /\ call.op = "BasicEvent::Validate"
  /\ call.outcome = "ok"
  /\ expression_[call.target] = [min |-> 0, max |-> 1]

\* C7: every SampleProbability() call returns the first draw that the
\* sampling cycle of its expression has seen, whichever basic event sharing
\* the expression made that draw; the cycle ends with Reset().
C7_SampleCoherence ==
  (call.op = "SampleProbability" /\ call.outcome = "ok") =>
    /\ first_draw[expression_[call.target]] # <<>>
    /\ first_draw[expression_[call.target]][1] = call.ret

\* C7 witness: a basic event returned the draw another basic event made
\* first, from an expression with more than one possible draw.
C7_Witness ==
  /\ call.op = "SampleProbability"
  /\ call.outcome = "ok"
  /\ first_draw[expression_[call.target]][2] # call.target
  /\ expression_[call.target].min < expression_[call.target].max

\* C8: a house event no state(b) call has reached has state false and
\* has_expression false; after state(b) the getter state() returns b; and
\* once state(b) has been called has_expression() is true for good.
C8_HouseEventState ==
  /\ \A h \in HouseEvents :
       /\ h \notin touched => ~state(h) /\ ~has_expression(h)
       /\ h \in touched => has_expression(h)
  /\ call.op = "state" => state(call.target) = call.arg
  /\ call.op = "state()" =>
       /\ call.ret = state_[call.target]
       /\ call.ret => call.target \in touched

\* C8 witness: state(false) was called on a house event, whose
\* has_expression() is true with its state false, while another is on.
C8_Witness ==
  /\ call.op = "state"
  /\ call.arg = FALSE
  /\ has_expression(call.target)
  /\ \E h \in HouseEvents \ {call.target} : state(h)

\* C10: has_expression() of a basic event is true if and only if an
\* expression is assigned to it, and no call of p(), SampleProbability(),
\* Reset(), IsConstant() or Validate() on an event whose has_expression() is
\* true meets an unset expression.
C10_HasExpressionIffAssigned ==
  /\ \A b \in BasicEvents : has_expression(b) <=> expression_[b] # Null
  /\ \A b \in BasicEvents : has_expression(b) <=> b \in touched
  /\ (/\ call.op \in {"p", "SampleProbability", "Reset", "IsConstant",
                      "BasicEvent::Validate"}
      /\ call.outcome \in {"abort", "undefined"})
       => ~has_expression(call.target)

\* p() returned the mean of an assigned expression while the other basic
\* event has none.
C10_Witness ==
  /\ call.op = "p"
  /\ call.outcome = "ok"
  /\ has_expression(call.target)
  /\ \E b \in SampledEvents : ~has_expression(b)

\* ------------------------------------------------------ claims: Validate
ValidateOps == {"BasicEvent::Validate", "Formula::Validate", "Gate::Validate"}

\* Everything of the model that a Validate() run or a getter can observe.
modelVars == <<formulaVars, eventVars, restVars>>

\* C9: a Validate() run changes no state of the model, and a run that
\* follows the same run on the same object gives the same outcome.  Runs on
\* a basic event whose expression_ is null and on a gate without formula are
\* left out: their behaviour is undefined.
C9_ValidateIsIdempotent ==
  [][(call'.op \in ValidateOps /\ call'.outcome # "undefined")
       => /\ UNCHANGED modelVars
          /\ (call.op = call'.op /\ call.target = call'.target)
               => call'.outcome = call.outcome]_vars

C9_Witness ==
  /\ call.op = "BasicEvent::Validate"
  /\ call.outcome = "ValidationError"
  /\ \E f \in Formulae :
       ValidateOutcome(f) = "ValidationError" /\ num_args(f) = 1

\* --------------------------------------------- claims: Formula arguments
\* The events of the three event sequences of formula f, in one sequence.
EventSequence(f) ==
  house_event_args_[f] \o basic_event_args_[f] \o gate_args_[f]

\* The number of arguments after a step, as num_args() would return it.
NumArgsAfter(f) == Cardinality(DOMAIN event_args_'[f]) + Len(formula_args_'[f])

\* C11: for every formula, the keys of event_args() are the ids of the
\* events in the house, basic and gate sequences, no id occurs twice within
\* or across these sequences, and num_args() is the sum of the lengths of
\* the house, basic, gate and nested-formula sequences.
C11_ArgumentsAgree ==
  \A f \in Formulae :
    /\ DOMAIN event_args_[f] = InsertedIds(f)
    /\ \A i, j \in 1 .. Len(EventSequence(f)) :
         i # j => EventSequence(f)[i].id # EventSequence(f)[j].id
    /\ num_args(f) = NumArguments(f)

\* C11 witness: after a failed call, a formula holds events in two of its
\* sequences and a nested formula.
C11_Witness ==
  /\ call.op = "AddArgument"
  /\ call.outcome = "DuplicateArgumentError"
  /\ Cardinality({k \in {"house", "basic", "gate"} :
                    \E i \in 1 .. Len(EventSequence(call.target)) :
                      EventSequence(call.target)[i].kind = k}) >= 2
  /\ Len(formula_args_[call.target]) >= 1
  /\ num_args(call.target) >= 3

\* C12: an AddArgument call that raises DuplicateArgumentError changes none
\* of event_args(), house_event_args(), basic_event_args(), gate_args(),
\* formula_args() and num_args() of any formula; the event stored under the
\* id stays the one that was stored.
C12_FailedAddArgumentChangesNothing ==
  [][(call'.op = "AddArgument" /\ call'.outcome = "DuplicateArgumentError") =>
       /\ UNCHANGED <<event_args_, house_event_args_, basic_event_args_,
                      gate_args_, formula_args_>>
       /\ NumArgsAfter(call'.target) = num_args(call'.target)
       /\ call'.arg.id \in DOMAIN event_args_[call'.target]
       /\ event_args_'[call'.target][call'.arg.id]
            = event_args_[call'.target][call'.arg.id]]_vars

\* C12 witness: the rejected event is another object than the event stored
\* under its id, and the stored event is still there.
C12_Witness ==
  /\ call.op = "AddArgument"
  /\ call.outcome = "DuplicateArgumentError"
  /\ event_args_[call.target][call.arg.id] # call.arg
  /\ \E i \in 1 .. Len(EventSequence(call.target)) :
       EventSequence(call.target)[i] = event_args_[call.target][call.arg.id]
  /\ \A i \in 1 .. Len(EventSequence(call.target)) :
       EventSequence(call.target)[i] # call.arg

====
